---- MODULE Spec2Model ----
(***************************************************************************)
(* The translation microservice of src/index.ts: POST /translate (body     *)
(* parser, request schema, handler, inference call, response schema) and   *)
(* GET /healthcheck.                                                       *)
(*                                                                         *)
(* JSON texts are sequences of lexical tokens (punctuation, literals,      *)
(* string and number tokens, whitespace, and "word" for any run of         *)
(* characters that is no JSON token: prose, a code fence).  JSON values    *)
(* are records [t, s, a]: t the type, s the characters of a string or      *)
(* number, a the elements of an array or the members [k, v] of an object.  *)
(* A string is a sequence of symbols: a word ("en", "key") stands for its  *)
(* letters, and "SP", "TAB", "LF" are the space, tab and line feed.        *)
(***************************************************************************)
EXTENDS Integers, Sequences, FiniteSets, TLC

VARIABLES req, calls, health

vars == <<req, calls, health>>

(***************************************************************************)
(* Bounds of the model.                                                    *)
(***************************************************************************)
MaxEntries == 2
MaxTagLen == 2
NConc == 2

(***************************************************************************)
(* JSON values                                                             *)
(***************************************************************************)
JUndef == [t |-> "undef", s |-> <<>>, a |-> <<>>]
JNull == [t |-> "null", s |-> <<>>, a |-> <<>>]
JTrue == [t |-> "true", s |-> <<>>, a |-> <<>>]
JFalse == [t |-> "false", s |-> <<>>, a |-> <<>>]
JNum(d) == [t |-> "num", s |-> d, a |-> <<>>]
JStr(c) == [t |-> "str", s |-> c, a |-> <<>>]
JArr(items) == [t |-> "arr", s |-> <<>>, a |-> items]
JObj(members) == [t |-> "obj", s |-> <<>>, a |-> members]
Mem(k, v) == [k |-> k, v |-> v]

HasKey(o, k) == o.t = "obj" /\ \E i \in 1..Len(o.a) : o.a[i].k = k

\* o[k] of JavaScript: undefined when o has no such property, or is no object.
Get(o, k) ==
    IF HasKey(o, k)
    THEN o.a[CHOOSE i \in 1..Len(o.a) : o.a[i].k = k].v
    ELSE JUndef

\* o[k] = v: an existing property keeps its place, a new one goes last.
SetMember(members, k, v) ==
    IF \E i \in 1..Len(members) : members[i].k = k
    THEN [i \in 1..Len(members) |->
            IF members[i].k = k THEN Mem(k, v) ELSE members[i]]
    ELSE Append(members, Mem(k, v))

RECURSIVE SelectMembers(_, _)
SelectMembers(members, keep) ==
    IF members = <<>> THEN <<>>
    ELSE IF Head(members).k \in keep
         THEN <<Head(members)>> \o SelectMembers(Tail(members), keep)
         ELSE SelectMembers(Tail(members), keep)

(***************************************************************************)
(* JSON texts                                                              *)
(***************************************************************************)
Tok(k) == [k |-> k, s |-> <<>>]
StrTok(c) == [k |-> "str", s |-> c]
NumTok(d) == [k |-> "num", s |-> d]
Ws == Tok("ws")
Word == Tok("word")

\* The text of a primitive value.
ScalarText(v) ==
    CASE v.t = "str" -> <<StrTok(v.s)>>
      [] v.t = "num" -> <<NumTok(v.s)>>
      [] OTHER -> <<Tok(v.t)>>

\* JSON.stringify(v, null, indent ? 2 : undefined), for v not undefined.
\* With an indent every element and member starts a line, and ": " separates
\* a member's name from its value.
RECURSIVE StringifyValue(_, _), StringifyItems(_, _), StringifyMembers(_, _)
StringifyValue(v, indent) ==
    LET nl == IF indent THEN <<Ws>> ELSE <<>> IN
    CASE v.t = "arr" ->
            IF v.a = <<>> THEN <<Tok("["), Tok("]")>>
            ELSE <<Tok("[")>> \o StringifyItems(v.a, indent) \o nl \o <<Tok("]")>>
      [] v.t = "obj" ->
            IF v.a = <<>> THEN <<Tok("{"), Tok("}")>>
            ELSE <<Tok("{")>> \o StringifyMembers(v.a, indent) \o nl \o <<Tok("}")>>
      [] v.t = "undef" -> <<Tok("null")>>
      [] OTHER -> ScalarText(v)
StringifyItems(items, indent) ==
    LET nl == IF indent THEN <<Ws>> ELSE <<>>
        first == nl \o StringifyValue(Head(items), indent)
    IN  IF Len(items) = 1 THEN first
        ELSE first \o <<Tok(",")>> \o StringifyItems(Tail(items), indent)
StringifyMembers(members, indent) ==
    LET nl == IF indent THEN <<Ws>> ELSE <<>>
        m == Head(members)
        first == nl \o <<StrTok(m.k), Tok(":")>> \o nl \o StringifyValue(m.v, indent)
    IN  IF Len(members) = 1 THEN first
        ELSE first \o <<Tok(",")>> \o StringifyMembers(Tail(members), indent)

\* A text, or JavaScript's undefined where a text is expected.
Text(toks) == [defined |-> TRUE, text |-> toks]
NoText == [defined |-> FALSE, text |-> <<>>]

\* JSON.stringify(v, null, 2): undefined for undefined.
JSONstringify(v, indent) ==
    IF v.t = "undef" THEN NoText ELSE Text(StringifyValue(v, indent))

(***************************************************************************)
(* JSON.parse                                                              *)
(***************************************************************************)
ParseFail == [ok |-> FALSE, val |-> JNull, pos |-> 0]
ParseOk(v, p) == [ok |-> TRUE, val |-> v, pos |-> p]

RECURSIVE SkipWs(_, _)
SkipWs(toks, i) ==
    IF i <= Len(toks) /\ toks[i].k = "ws" THEN SkipWs(toks, i + 1) ELSE i

RECURSIVE ParseValue(_, _), ParseElements(_, _, _), ParseMembers(_, _, _)
ParseValue(toks, i) ==
    LET j == SkipWs(toks, i) IN
    IF j > Len(toks) THEN ParseFail
    ELSE LET k == toks[j].k IN
         CASE k = "null" -> ParseOk(JNull, j + 1)
           [] k = "true" -> ParseOk(JTrue, j + 1)
           [] k = "false" -> ParseOk(JFalse, j + 1)
           [] k = "num" -> ParseOk(JNum(toks[j].s), j + 1)
           [] k = "str" -> ParseOk(JStr(toks[j].s), j + 1)
           [] k = "[" ->
                LET n == SkipWs(toks, j + 1) IN
                IF n <= Len(toks) /\ toks[n].k = "]"
                THEN ParseOk(JArr(<<>>), n + 1)
                ELSE ParseElements(toks, j + 1, <<>>)
           [] k = "{" ->
                LET n == SkipWs(toks, j + 1) IN
                IF n <= Len(toks) /\ toks[n].k = "}"
                THEN ParseOk(JObj(<<>>), n + 1)
                ELSE ParseMembers(toks, j + 1, <<>>)
           [] OTHER -> ParseFail
ParseElements(toks, i, acc) ==
    LET r == ParseValue(toks, i) IN
    IF ~r.ok THEN ParseFail
    ELSE LET j == SkipWs(toks, r.pos) IN
         IF j > Len(toks) THEN ParseFail
         ELSE IF toks[j].k = "," THEN ParseElements(toks, j + 1, Append(acc, r.val))
         ELSE IF toks[j].k = "]" THEN ParseOk(JArr(Append(acc, r.val)), j + 1)
         ELSE ParseFail
ParseMembers(toks, i, acc) ==
    LET j == SkipWs(toks, i) IN
    IF j > Len(toks) \/ toks[j].k # "str" THEN ParseFail
    ELSE LET c == SkipWs(toks, j + 1) IN
         IF c > Len(toks) \/ toks[c].k # ":" THEN ParseFail
         ELSE LET r == ParseValue(toks, c + 1) IN
              IF ~r.ok THEN ParseFail
              ELSE LET n == SkipWs(toks, r.pos)
                       got == SetMember(acc, toks[j].s, r.val)
                   IN  IF n > Len(toks) THEN ParseFail
                       ELSE IF toks[n].k = "," THEN ParseMembers(toks, n + 1, got)
                       ELSE IF toks[n].k = "}" THEN ParseOk(JObj(got), n + 1)
                       ELSE ParseFail

\* JSON.parse(text): one value, whitespace around it, nothing else; ok = FALSE
\* is the SyntaxError it throws.
JSONparse(toks) ==
    LET r == ParseValue(toks, 1) IN
    IF r.ok /\ SkipWs(toks, r.pos) > Len(toks)
    THEN [ok |-> TRUE, val |-> r.val]
    ELSE [ok |-> FALSE, val |-> JNull]

(***************************************************************************)
(* Request validation: the "request" schema under the validator the server *)
(* is built with.  Fastify({ logger }) gives no validator options, so the  *)
(* framework's own apply: a value of the wrong primitive type is coerced   *)
(* to the schema's type where a coercion exists (coerceTypes: "array"),    *)
(* and a property that additionalProperties: false forbids is removed from *)
(* the body instead of failing it (removeAdditional: true).                *)
(***************************************************************************)
\* The property names of the schemas.
kLanguageFrom == <<"languageFrom">>
kLanguageTo == <<"languageTo">>
kStrings == <<"strings">>
kKey == <<"key">>
kValue == <<"value">>
kComment == <<"comment">>

LineTerminators == {"LF"}

\* pattern: "^.+$" : "." is any character but a line terminator, and without
\* the m flag "^" and "$" are the ends of the whole string.
MatchesPattern(c) ==
    /\ Len(c) >= 1
    /\ \A i \in 1..Len(c) : c[i] \notin LineTerminators

\* The type keyword: an array is no "object".
IsType(v, type) ==
    CASE type = "string" -> v.t = "str"
      [] type = "array" -> v.t = "arr"
      [] type = "object" -> v.t = "obj"
      [] OTHER -> FALSE

Coerced(v) == [ok |-> TRUE, val |-> v]
NotCoerced == [ok |-> FALSE, val |-> JNull]

\* The validator's coercion of v to a schema type: an array of one element
\* stands for its element; a number, a boolean or null becomes a string; a
\* primitive becomes the array holding it; nothing becomes an object.
CoerceType(v, type) ==
    LET one == v.t = "arr" /\ Len(v.a) = 1
        u == IF one THEN v.a[1] ELSE v
    IN  IF IsType(v, type) THEN Coerced(v)
        ELSE IF one /\ IsType(u, type) THEN Coerced(u)
        ELSE CASE type = "string" ->
                    CASE u.t = "num" -> Coerced(JStr(u.s))
                      [] u.t = "true" -> Coerced(JStr(<<"true">>))
                      [] u.t = "false" -> Coerced(JStr(<<"false">>))
                      [] u.t = "null" -> Coerced(JStr(<<>>))
                      [] OTHER -> NotCoerced
               [] type = "array" ->
                    IF u.t \in {"str", "num", "true", "false", "null"}
                    THEN Coerced(JArr(<<u>>))
                    ELSE NotCoerced
               [] OTHER -> NotCoerced

\* key and value of an entry: { type: "string" } each, neither required.
RECURSIVE ValidateEntryMembers(_)
ValidateEntryMembers(members) ==
    IF members = <<>> THEN Coerced(<<>>)
    ELSE LET m == Head(members)
             rest == ValidateEntryMembers(Tail(members))
             c == IF m.k \in {kKey, kValue}
                  THEN CoerceType(m.v, "string")
                  ELSE Coerced(m.v)
         IN  IF c.ok /\ rest.ok
             THEN Coerced(<<Mem(m.k, c.val)>> \o rest.val)
             ELSE NotCoerced

\* items: { type: "object", properties: { key, value } }.
ValidateEntry(e) ==
    LET o == CoerceType(e, "object") IN
    IF ~o.ok THEN NotCoerced
    ELSE LET ms == ValidateEntryMembers(o.val.a) IN
         IF ms.ok THEN Coerced(JObj(ms.val)) ELSE NotCoerced

RECURSIVE ValidateItems(_)
ValidateItems(items) ==
    IF items = <<>> THEN Coerced(<<>>)
    ELSE LET e == ValidateEntry(Head(items))
             rest == ValidateItems(Tail(items))
         IN  IF e.ok /\ rest.ok THEN Coerced(<<e.val>> \o rest.val) ELSE NotCoerced

\* strings: { type: "array", items: ... }.
ValidateStrings(v) ==
    LET arr == CoerceType(v, "array") IN
    IF ~arr.ok THEN NotCoerced
    ELSE LET items == ValidateItems(arr.val.a) IN
         IF items.ok THEN Coerced(JArr(items.val)) ELSE NotCoerced

\* languageFrom, languageTo: { type: "string", pattern: "^.+$" }.
ValidateLanguage(v) ==
    LET str == CoerceType(v, "string") IN
    IF str.ok /\ MatchesPattern(str.val.s) THEN str ELSE NotCoerced


RequestProperties == {kLanguageFrom, kLanguageTo, kStrings}
RequestRequired == {kLanguageFrom, kLanguageTo}

RECURSIVE ValidateProperties(_)
ValidateProperties(members) ==
    IF members = <<>> THEN Coerced(<<>>)
    ELSE LET m == Head(members)
             rest == ValidateProperties(Tail(members))
             c == IF m.k = kStrings THEN ValidateStrings(m.v)
                  ELSE ValidateLanguage(m.v)
         IN  IF c.ok /\ rest.ok
             THEN Coerced(<<Mem(m.k, c.val)>> \o rest.val)
             ELSE NotCoerced

\* What additionalProperties: false does to the members of the body: the
\* members the schema does not declare are deleted.
RemoveAdditional(members) == SelectMembers(members, RequestProperties)

\* The body against the "request" schema: ok and the body the handler gets,
\* or not ok (the framework answers 400 and the handler never runs).
ValidateRequest(body) ==
    IF body.t # "obj" THEN NotCoerced
    ELSE IF \E k \in RequestRequired : ~HasKey(body, k) THEN NotCoerced
    ELSE LET ps == ValidateProperties(RemoveAdditional(body.a)) IN
         IF ps.ok THEN Coerced(JObj(ps.val)) ELSE NotCoerced


(***************************************************************************)
(* The reply of POST /translate: what the handler returns, and the         *)
(* "response" schema the framework serializes a 200 reply with.  The       *)
(* serializer is compiled from the schema: it writes the declared          *)
(* properties that are present, in the schema's order, converts a value    *)
(* that is no string with toString(), and validates nothing else.          *)
(***************************************************************************)
\* String(v) of JavaScript, for a value read from parsed JSON.
RECURSIVE JsToString(_), JoinToString(_)
JsToString(v) ==
    CASE v.t = "str" -> v.s
      [] v.t = "num" -> v.s
      [] v.t = "arr" -> JoinToString(v.a)
      [] v.t = "obj" -> <<"[object Object]">>
      [] OTHER -> <<v.t>>
JoinToString(items) ==
    IF items = <<>> THEN <<>>
    ELSE LET h == IF Head(items).t \in {"null", "undef"} THEN <<>>
                  ELSE JsToString(Head(items))
         IN  IF Len(items) = 1 THEN h
             ELSE h \o <<",">> \o JoinToString(Tail(items))

\* A { type: "string" } property: null is written "".
SerializeString(v) == IF v.t = "null" THEN JStr(<<>>) ELSE JStr(JsToString(v))

\* The item schema without its comment property.
ResponseItemProperties_NoComment == <<kKey, kValue>>

\* The item schema without its key property.
ResponseItemProperties_NoKey == <<kValue, kComment>>

ResponseItemProperties == <<kKey, kValue, kComment>>

RECURSIVE SerializeProperties(_, _)
SerializeProperties(e, names) ==
    IF names = <<>> THEN <<>>
    ELSE LET v == Get(e, Head(names))
             rest == SerializeProperties(e, Tail(names))
         IN  IF v.t = "undef" THEN rest
             ELSE <<Mem(Head(names), SerializeString(v))>> \o rest

Serialized(v) == [ok |-> TRUE, val |-> v]
SerializeThrows == [ok |-> FALSE, val |-> JNull]

\* items: { type: "object", properties: { key, value, comment } }.  Reading a
\* property of a number, string, boolean or array gives undefined, so such an
\* element is written {}.  Of null the serializer either reads a property
\* (a TypeError) or writes the empty object, by its version: nullEmpty.
SerializeEntry(e, nullEmpty) ==
    IF e.t = "null"
    THEN IF nullEmpty THEN Serialized(JObj(<<>>)) ELSE SerializeThrows
    ELSE Serialized(JObj(SerializeProperties(e, ResponseItemProperties)))

RECURSIVE SerializeItems(_, _)
SerializeItems(items, nullEmpty) ==
    IF items = <<>> THEN Serialized(<<>>)
    ELSE LET e == SerializeEntry(Head(items), nullEmpty)
             rest == SerializeItems(Tail(items), nullEmpty)
         IN  IF e.ok /\ rest.ok THEN Serialized(<<e.val>> \o rest.val)
             ELSE SerializeThrows

\* strings: { type: "array" }: a value that is no array is a TypeError (null
\* is one, or is written [], by the serializer's version).
SerializeStrings(v, nullEmpty) ==
    IF v.t = "null"
    THEN IF nullEmpty THEN Serialized(JArr(<<>>)) ELSE SerializeThrows
    ELSE IF v.t # "arr" THEN SerializeThrows
    ELSE LET items == SerializeItems(v.a, nullEmpty) IN
         IF items.ok THEN Serialized(JArr(items.val)) ELSE SerializeThrows

\* The 200 reply for what the handler returned: ok and the text sent, or the
\* serializer threw.
SerializeResponse(ret, nullEmpty) ==
    LET strs == SerializeStrings(Get(ret, kStrings), nullEmpty) IN
    IF strs.ok
    THEN [ok |-> TRUE,
          text |-> StringifyValue(JObj(<<Mem(kStrings, strs.val)>>), FALSE)]
    ELSE [ok |-> FALSE, text |-> <<>>]

\* The replies the serializer can make of ret, over its versions.
SerializeOutcomes(ret) == {SerializeResponse(ret, b) : b \in BOOLEAN}

\* The handler with JSON.parse(data ?? "[]"): null content read as no entries.
HandlerReturn_EmptyArrayDefault(content) ==
    LET parsed == JSONparse(IF content.defined THEN content.text
                            ELSE <<Tok("["), Tok("]")>>) IN
    [ok |-> parsed.ok, val |-> JObj(<<Mem(kStrings, parsed.val)>>)]

\* const data = response.choices[0].message.content;
\* return { strings: JSON.parse(data ?? "") };
\* content is a text or null (Text / NoText); not ok: JSON.parse threw.
HandlerReturn(content) ==
    LET parsed == JSONparse(IF content.defined THEN content.text ELSE <<>>) IN
    [ok |-> parsed.ok, val |-> JObj(<<Mem(kStrings, parsed.val)>>)]

\* The messages of the completion request: the system prompt is the fixed
\* template around languageFrom and languageTo, the user message is
\* JSON.stringify(strings, null, 2).
Messages(body) ==
    [from |-> Get(body, kLanguageFrom).s,
     to |-> Get(body, kLanguageTo).s,
     user |-> JSONstringify(Get(body, kStrings), TRUE)]


(***************************************************************************)
(* The inference client: new OpenAI({ apiKey }).  No maxRetries is given,  *)
(* so the client's own applies: an attempt that fails with a connection    *)
(* error or a retryable status (408, 409, 429, 5xx) is sent again, up to   *)
(* MaxRetries more times, before the promise rejects.                      *)
(***************************************************************************)
MaxRetries == 2

FailureKinds == {"rate_limit", "auth"}
Retryable(kind) == kind = "rate_limit"

\* One completions.create call: its messages, the attempts sent so far, and
\* its promise (content: the completion's message content, a text or null).
NewCall(messages) ==
    [messages |-> messages, attempts |-> 1, state |-> "sent",
     content |-> NoText, error |-> "none"]

(***************************************************************************)
(* Inputs                                                                  *)
(***************************************************************************)
SeqsUpTo(set, n) == UNION {[1..k -> set] : k \in 0..n}

S(word) == JStr(<<word>>)

\* Language tags: every string of at most MaxTagLen of these characters.
TagChars == {"x", "SP", "TAB", "LF"}
Tags == SeqsUpTo(TagChars, MaxTagLen)
LanguageOptions == {JStr(c) : c \in Tags} \cup {JUndef, JNull, JNum(<<"5">>)}

Entry(k, v) == JObj(<<Mem(kKey, k), Mem(kValue, v)>>)
EntryOptions ==
    { Entry(S("a"), S("Hello")),
      JObj(<<Mem(kValue, S("Hello"))>>),
      JObj(<<Mem(kKey, S("a"))>>),
      Entry(JNum(<<"1">>), JTrue),
      Entry(JObj(<<>>), S("Hello")),
      JNum(<<"7">>) }
StringsOptions ==
    {JUndef, S("Hello")} \cup {JArr(e) : e \in SeqsUpTo(EntryOptions, MaxEntries)}
ExtraOptions == {<<>>, <<Mem(<<"apiKey">>, S("secret"))>>}

Property(k, v) == IF v.t = "undef" THEN <<>> ELSE <<Mem(k, v)>>
Payload(from, to, strings, extra) ==
    JObj(Property(kLanguageFrom, from) \o Property(kLanguageTo, to)
         \o Property(kStrings, strings) \o extra)

OneEntry == JArr(<<Entry(S("a"), S("Hello"))>>)

\* The request bodies: every list of entries, and beside one entry each
\* language tag varied alone and an undeclared property.
Payloads ==
    {Payload(f, S("fr"), OneEntry, <<>>) : f \in LanguageOptions}
    \cup {Payload(S("en"), t, OneEntry, <<>>) : t \in LanguageOptions}
    \cup {Payload(S("en"), S("fr"), s, <<>>) : s \in StringsOptions}
    \cup {Payload(S("en"), S("fr"), OneEntry, x) : x \in ExtraOptions}

\* The entries a backend that follows the prompt answers with.
Translated(k, v) == JObj(<<Mem(kKey, S(k)), Mem(kValue, S(v))>>)
Commented(k, v, c) == JObj(<<Mem(kKey, S(k)), Mem(kValue, S(v)), Mem(kComment, S(c))>>)
TranslatedOptions ==
    { Translated("a", "Bonjour"),
      Translated("1", "Salut"),
      Commented("a", "Bonjour", "unsure") }
\* An entry that names value before key.
ValueFirst == JObj(<<Mem(kValue, S("Bonjour")), Mem(kKey, S("a"))>>)
WellFormedArrays ==
    {JArr(e) : e \in SeqsUpTo(TranslatedOptions, MaxEntries)}
    \cup {JArr(<<ValueFirst>>)}

\* Completions that are the text of a well-formed array, compact or indented.
WellFormedTexts ==
    {StringifyValue(v, FALSE) : v \in WellFormedArrays}
    \cup {StringifyValue(v, TRUE) : v \in WellFormedArrays}

\* JSON values that are no array of entry objects.
OtherValues ==
    { JObj(<<>>), Translated("a", "Bonjour"), JNum(<<"7">>), S("Bonjour"),
      JTrue, JNull,
      JArr(<<JNum(<<"7">>)>>), JArr(<<JNull>>), JArr(<<S("Bonjour")>>),
      JArr(<<JArr(<<>>)>>), JArr(<<Translated("a", "Bonjour"), JFalse>>) }
OtherTexts == {StringifyValue(v, FALSE) : v \in OtherValues}

\* Arrays of objects that are not entries as the prompt asks: a key that is
\* no string, a value missing, a property the schema does not declare.
OddValues ==
    { JArr(<<Entry(JNum(<<"1">>), S("Salut"))>>),
      JArr(<<JObj(<<Mem(kKey, S("a"))>>)>>),
      JArr(<<JObj(<<Mem(kKey, S("a")), Mem(kValue, S("Bonjour")),
                   Mem(<<"note">>, S("x"))>>)>>) }
OddTexts == {StringifyValue(v, FALSE) : v \in OddValues}

Prefixes(t) == {SubSeq(t, 1, n) : n \in 1..(Len(t) - 1)}
LongestSample ==
    StringifyValue(JArr(<<Translated("a", "Bonjour"),
                          Commented("a", "Bonjour", "unsure")>>), FALSE)

\* Texts that are no JSON: prose, a truncated array, an array with prose or
\* a code fence around it, a trailing comma, the empty text.
ProseTexts == {<<Word>>, <<Word, Word>>}
TruncatedTexts == Prefixes(LongestSample)
WrappedSamples ==
    { JArr(<<>>), JArr(<<Translated("a", "Bonjour")>>),
      JArr(<<Translated("a", "Bonjour"), Commented("a", "Bonjour", "unsure")>>) }
WrappedTexts ==
    UNION {{<<Word>> \o StringifyValue(v, FALSE),
            StringifyValue(v, FALSE) \o <<Word>>,
            <<Word>> \o StringifyValue(v, TRUE) \o <<Word>>} : v \in WrappedSamples}
MalformedTexts ==
    { <<Tok("["), StrTok(<<"a">>), Tok(","), Tok("]")>>,
      <<Tok("{"), StrTok(kKey), StrTok(<<"a">>), Tok("}")>>,
      <<Tok("["), Tok("]"), Tok("["), Tok("]")>> }
EmptyText == <<>>
UnparseableTexts ==
    ProseTexts \cup TruncatedTexts \cup WrappedTexts \cup MalformedTexts \cup {EmptyText}

\* What message.content can be: a text, or null.
Completions ==
    {Text(t) : t \in WellFormedTexts \cup OtherTexts \cup OddTexts \cup UnparseableTexts}
    \cup {NoText}


(***************************************************************************)
(* State                                                                   *)
(*   req[r]    one POST /translate request: where it is in the route (pc), *)
(*             req.body, the promise its handler awaits (call, an index of *)
(*             calls), and the reply: sent is "200" or "error", error the  *)
(*             failure, reply the text of a 200 reply                      *)
(*   calls     the completion requests made through the shared client      *)
(*   health    one GET /healthcheck request                                *)
(***************************************************************************)
IdleRequest ==
    [pc |-> "idle", payload |-> JUndef, body |-> JUndef, call |-> 0,
     sent |-> "none", error |-> "none", reply |-> <<>>]

IdleHealth == [pc |-> "idle", probe |-> "none", sent |-> "none", status |-> "none"]

Init ==
    /\ req = [r \in 1..1 |-> IdleRequest]
    /\ calls = <<>>
    /\ health = IdleHealth

InitConc ==
    /\ req = [r \in 1..NConc |-> IdleRequest]
    /\ calls = <<>>
    /\ health = IdleHealth

\* A request arrives with the text of payload p as its body; the content
\* type parser hands JSON.parse(body) on as req.body.
Receive(r, p) ==
    /\ req[r].pc = "idle"
    /\ LET parsed == JSONparse(StringifyValue(p, FALSE)) IN
       /\ parsed.ok
       /\ req' = [req EXCEPT ![r].pc = "parsed", ![r].payload = p,
                             ![r].body = parsed.val]
    /\ UNCHANGED <<calls, health>>

\* The route with attachValidation: a body that fails validation is handed to
\* the handler with the error attached.
Validate_AttachValidation(r) ==
    /\ req[r].pc = "parsed"
    /\ LET v == ValidateRequest(req[r].body) IN
       req' = IF v.ok
              THEN [req EXCEPT ![r].pc = "handling", ![r].body = v.val]
              ELSE [req EXCEPT ![r].pc = "handling"]
    /\ UNCHANGED <<calls, health>>

\* schema: { body: { $ref: "request#" } }: a body that fails is answered with
\* the validation error; one that passes goes to the handler as validated.
Validate(r) ==
    /\ req[r].pc = "parsed"
    /\ LET v == ValidateRequest(req[r].body) IN
       req' = IF v.ok
              THEN [req EXCEPT ![r].pc = "handling", ![r].body = v.val]
              ELSE [req EXCEPT ![r].pc = "done", ![r].sent = "error",
                               ![r].error = "ValidationError"]
    /\ UNCHANGED <<calls, health>>

\* The handler up to its await: the prompt, and openai.chat.completions.create.
HandlerStart(r) ==
    /\ req[r].pc = "handling"
    /\ calls' = Append(calls, NewCall(Messages(req[r].body)))
    /\ req' = [req EXCEPT ![r].pc = "awaiting", ![r].call = Len(calls) + 1]
    /\ UNCHANGED health

\* The backend answers an attempt with a completion.
BackendCompletes(c, content) ==
    /\ calls[c].state = "sent"
    /\ calls' = [calls EXCEPT ![c].state = "resolved", ![c].content = content]
    /\ UNCHANGED <<req, health>>

\* An attempt fails.
AttemptFails(c, kind) ==
    /\ calls[c].state = "sent"
    /\ calls' = [calls EXCEPT ![c].state = "failed", ![c].error = kind]
    /\ UNCHANGED <<req, health>>

\* The client sends a failed attempt again.
ClientRetries(c) ==
    /\ calls[c].state = "failed"
    /\ Retryable(calls[c].error)
    /\ calls[c].attempts <= MaxRetries
    /\ calls' = [calls EXCEPT ![c].state = "sent", ![c].attempts = @ + 1]
    /\ UNCHANGED <<req, health>>

\* The client gives up: the promise rejects.
ClientRejects(c) ==
    /\ calls[c].state = "failed"
    /\ ~(Retryable(calls[c].error) /\ calls[c].attempts <= MaxRetries)
    /\ calls' = [calls EXCEPT ![c].state = "rejected"]
    /\ UNCHANGED <<req, health>>

\* The response kept in a variable of the module instead of the handler: every
\* handler reads the promise of the call made last.
PromiseOf_LastIssued(r) == Len(calls)

\* The promise the handler of r awaits: the one its own create call returned.
PromiseOf(r) == req[r].call

\* The handler after its await, and the reply: a rejected promise and a
\* SyntaxError of JSON.parse leave the handler as errors; what it returns is
\* serialized with the response schema and sent as 200, unless the
\* serializer throws.
Resume(r) ==
    /\ req[r].pc = "awaiting"
    /\ calls[PromiseOf(r)].state \in {"resolved", "rejected"}
    /\ LET call == calls[PromiseOf(r)]
           ret == HandlerReturn(call.content)
       IN  \/ /\ call.state = "rejected"
              /\ req' = [req EXCEPT ![r].pc = "done", ![r].sent = "error",
                                    ![r].error = "InferenceError"]
           \/ /\ call.state = "resolved"
              /\ ~ret.ok
              /\ req' = [req EXCEPT ![r].pc = "done", ![r].sent = "error",
                                    ![r].error = "SyntaxError"]
           \/ /\ call.state = "resolved"
              /\ ret.ok
              /\ \E out \in SerializeOutcomes(ret.val) :
                    req' = IF out.ok
                           THEN [req EXCEPT ![r].pc = "done", ![r].sent = "200",
                                            ![r].reply = out.text]
                           ELSE [req EXCEPT ![r].pc = "done", ![r].sent = "error",
                                            ![r].error = "TypeError"]
    /\ UNCHANGED <<calls, health>>

(***************************************************************************)
(* GET /healthcheck                                                        *)
(***************************************************************************)
ProbeOutcomes == {"listed", "network", "auth", "server"}

\* The health check without its catch: a failed listing leaves the handler.
HealthReply_NoCatch(outcome) ==
    IF outcome = "listed" THEN [sent |-> "200", status |-> "ok"]
    ELSE [sent |-> "error", status |-> "none"]

\* The reply for the outcome of await openai.files.list(): the try returns
\* { status: "ok" }, the catch { status: "error" }; both are sent as 200.
HealthReply(outcome) ==
    IF outcome = "listed" THEN [sent |-> "200", status |-> "ok"]
    ELSE [sent |-> "200", status |-> "error"]

\* The handler up to its await: openai.files.list().
HealthStart ==
    /\ health.pc \in {"idle", "done"}
    /\ health' = [IdleHealth EXCEPT !.pc = "probing"]
    /\ UNCHANGED <<req, calls>>

\* The listing call settles: with the list, or with a failure.
ProbeSettles(outcome) ==
    /\ health.pc = "probing"
    /\ health' = [health EXCEPT !.pc = "settled", !.probe = outcome]
    /\ UNCHANGED <<req, calls>>

\* try { ... return { status: "ok" } } catch (e) { return { status: "error" } }
HealthResume ==
    /\ health.pc = "settled"
    /\ health' = [health EXCEPT !.pc = "done",
                                !.sent = HealthReply(health.probe).sent,
                                !.status = HealthReply(health.probe).status]
    /\ UNCHANGED <<req, calls>>

(***************************************************************************)
(* Specifications                                                          *)
(***************************************************************************)
\* The route, for requests r carrying a body of payloads[r] and a backend
\* answering with one of completions.
Translate(payloads, completions) ==
    \/ \E r \in DOMAIN req : \E p \in payloads[r] : Receive(r, p)
    \/ \E r \in DOMAIN req : Validate(r)
    \/ \E r \in DOMAIN req : HandlerStart(r)
    \/ \E c \in 1..Len(calls) : \E content \in completions : BackendCompletes(c, content)
    \/ \E c \in 1..Len(calls) : \E kind \in FailureKinds : AttemptFails(c, kind)
    \/ \E c \in 1..Len(calls) : ClientRetries(c)
    \/ \E c \in 1..Len(calls) : ClientRejects(c)
    \/ \E r \in DOMAIN req : Resume(r)

Healthcheck ==
    \/ HealthStart
    \/ \E outcome \in ProbeOutcomes : ProbeSettles(outcome)
    \/ HealthResume

\* One request, over every body and every completion of the model.
AnyPayload == [r \in 1..1 |-> Payloads]

Next == Translate(AnyPayload, Completions)

Spec == Init /\ [][Next]_vars

\* Requests in flight together.  Request r asks for r entries, so that no two
\* requests send the same messages; or its body lacks languageFrom.
ConcEntries(r) == JArr([i \in 1..r |-> Entry(S("a"), S("Hello"))])
ConcPayloads ==
    [r \in 1..NConc |->
        { Payload(S("en"), S("fr"), ConcEntries(r), <<>>),
          Payload(JUndef, S("fr"), ConcEntries(r), <<>>) }]
ConcCompletions ==
    { Text(StringifyValue(JArr(<<Translated("a", "Bonjour")>>), FALSE)),
      Text(StringifyValue(JArr(<<Translated("a", "Salut"),
                                 Translated("a", "Salut")>>), FALSE)),
      Text(<<Word>>) }

NextConc == Translate(ConcPayloads, ConcCompletions)

SpecConc == InitConc /\ [][NextConc]_vars

\* The health check beside one request.
NextHealth == Translate(ConcPayloads, ConcCompletions) \/ Healthcheck

SpecHealth == Init /\ [][NextHealth]_vars

(***************************************************************************)
(* Properties                                                              *)
(***************************************************************************)
Requests == DOMAIN req

Done(r) == req[r].pc = "done"
Called(r) == req[r].call > 0
OwnCall(r) == calls[req[r].call]
Answered(r) == Done(r) /\ Called(r) /\ OwnCall(r).state = "resolved"
Rejected(r) == Done(r) /\ req[r].sent = "error" /\ req[r].error = "ValidationError"
Accepted(r) == req[r].pc \in {"handling", "awaiting"} \/ (Done(r) /\ ~Rejected(r))
Validated(r) == Rejected(r) \/ Accepted(r)

\* The entry list of a 200 reply, as its reader parses it.
ReplyEntries(r) == Get(JSONparse(req[r].reply).val, kStrings).a

\* The entries the handler was given.
InputEntries(r) ==
    IF Get(req[r].body, kStrings).t = "arr" THEN Get(req[r].body, kStrings).a ELSE <<>>

KeysOf(o) == {o.a[i].k : i \in 1..Len(o.a)}
SameObject(x, y) ==
    /\ x.t = "obj" /\ y.t = "obj"
    /\ KeysOf(x) = KeysOf(y)
    /\ \A k \in KeysOf(x) : Get(x, k) = Get(y, k)

\* The array a well-formed completion text was written from.
ArrayOf(text) ==
    CHOOSE v \in WellFormedArrays :
        text \in {StringifyValue(v, FALSE), StringifyValue(v, TRUE)}

\* C1: a request whose completion is no JSON text (prose, a truncated or
\* wrapped or malformed array, the empty text) or is null ends in the
\* SyntaxError of JSON.parse: no 200 reply, and no entries in the reply.
C1_UnparseableFails ==
    \A r \in Requests :
        (Answered(r) /\ (~OwnCall(r).content.defined
                         \/ OwnCall(r).content.text \in UnparseableTexts))
        => /\ req[r].sent = "error"
           /\ req[r].error = "SyntaxError"
           /\ req[r].reply = <<>>

C1_Witness ==
    \E r \in Requests :
        /\ Answered(r)
        /\ OwnCall(r).content.defined
        /\ OwnCall(r).content.text \in WrappedTexts
        /\ req[r].error = "SyntaxError"

\* C2: a request whose completion is the text of a well-formed array of
\* { key, value } or { key, value, comment } objects is answered 200 with
\* exactly that array: as many entries, in the same order, each with the same
\* key and value, and a comment where and only where the array has one.
C2_WellFormedReturned ==
    \A r \in Requests :
        (Answered(r) /\ OwnCall(r).content.defined
                     /\ OwnCall(r).content.text \in WellFormedTexts)
        => /\ req[r].sent = "200"
           /\ LET want == ArrayOf(OwnCall(r).content.text).a
                  got == ReplyEntries(r)
              IN  /\ Len(got) = Len(want)
                  /\ \A i \in 1..Len(want) :
                        /\ SameObject(got[i], want[i])
                        /\ HasKey(got[i], kComment) <=> HasKey(want[i], kComment)

C2_Witness ==
    \E r \in Requests :
        /\ Answered(r)
        /\ req[r].sent = "200"
        /\ OwnCall(r).content.defined
        /\ OwnCall(r).content.text \in WellFormedTexts
        /\ Len(ReplyEntries(r)) = 2
        /\ HasKey(ReplyEntries(r)[1], kComment)
        /\ ~HasKey(ReplyEntries(r)[2], kComment)

\* The completion of r is an array with one object for each entry the handler
\* was given, the i-th with the key of the i-th entry.
CompletionFollowsInput(r) ==
    /\ OwnCall(r).content.defined
    /\ LET c == JSONparse(OwnCall(r).content.text)
           in == InputEntries(r)
       IN  /\ c.ok
           /\ c.val.t = "arr"
           /\ Len(c.val.a) = Len(in)
           /\ \A i \in 1..Len(in) :
                 /\ c.val.a[i].t = "obj"
                 /\ Get(c.val.a[i], kKey) = Get(in[i], kKey)

ReplyFollowsInput(r) ==
    /\ Len(ReplyEntries(r)) = Len(InputEntries(r))
    /\ \A i \in 1..Len(InputEntries(r)) :
          Get(ReplyEntries(r)[i], kKey) = Get(InputEntries(r)[i], kKey)

\* C3, as claimed: every 200 reply has as many entries as the request, the
\* i-th with the key of the request's i-th entry, whatever the completion.
C3_Original ==
    \A r \in Requests : (Done(r) /\ req[r].sent = "200") => ReplyFollowsInput(r)

\* C3, amended: a 200 reply has the count and the keys of the request's
\* entries whenever the completion has them.
C3_ReplyFollowsCompletion ==
    \A r \in Requests :
        (Done(r) /\ req[r].sent = "200" /\ CompletionFollowsInput(r))
        => ReplyFollowsInput(r)

C3_Witness ==
    \E r \in Requests :
        /\ Done(r)
        /\ req[r].sent = "200"
        /\ CompletionFollowsInput(r)
        /\ Len(InputEntries(r)) = 2
        /\ ReplyFollowsInput(r)

\* What a payload is, before validation touches it.
LacksLanguage(p) == ~HasKey(p, kLanguageFrom) \/ ~HasKey(p, kLanguageTo)
HasUndeclaredProperty(p) == \E k \in KeysOf(p) : k \notin RequestProperties
EntriesOf(p) == IF Get(p, kStrings).t = "arr" THEN Get(p, kStrings).a ELSE <<>>
HasNonStringField(p) ==
    \E i \in 1..Len(EntriesOf(p)) : \E k \in {kKey, kValue} :
        /\ HasKey(EntriesOf(p)[i], k)
        /\ Get(EntriesOf(p)[i], k).t # "str"
HasEntryWithoutField(p) ==
    \E i \in 1..Len(EntriesOf(p)) : \E k \in {kKey, kValue} :
        ~HasKey(EntriesOf(p)[i], k)
WhitespaceChars == {"SP", "TAB", "LF"}
IsBlank(v) == v.t = "str" /\ \A i \in 1..Len(v.s) : v.s[i] \in WhitespaceChars
HasBlankLanguage(p) ==
    IsBlank(Get(p, kLanguageFrom)) \/ IsBlank(Get(p, kLanguageTo))

\* C4: a payload without languageFrom or languageTo, or with an entry whose
\* key or value is no string, or with a top-level property the schema does
\* not declare, is rejected by validation and never reaches the handler.
C4_Original ==
    \A r \in Requests :
        (Validated(r) /\ (\/ LacksLanguage(req[r].payload)
                          \/ HasNonStringField(req[r].payload)
                          \/ HasUndeclaredProperty(req[r].payload)))
        => Rejected(r) /\ ~Called(r)

\* C5: a payload whose languageFrom or languageTo is empty or all whitespace
\* is rejected by validation.
C5_Original ==
    \A r \in Requests :
        (Validated(r) /\ HasBlankLanguage(req[r].payload)) => Rejected(r)

\* C6: a payload without an entry list, or with an entry that lacks key or
\* value, is rejected by validation before the backend is called.
C6_Original ==
    \A r \in Requests :
        (Validated(r) /\ (\/ ~HasKey(req[r].payload, kStrings)
                          \/ HasEntryWithoutField(req[r].payload)))
        => Rejected(r) /\ ~Called(r)

C8_HealthAlwaysAnswers ==
    /\ health.sent # "error"
    /\ health.pc = "done" =>
          /\ health.sent = "200"
          /\ health.probe = "listed" => health.status = "ok"
          /\ health.probe # "listed" => health.status = "error"

C8_Witness ==
    /\ health.pc = "done"
    /\ health.probe = "auth"
    /\ health.sent = "200"
    /\ health.status = "error"

\* C9: a request whose completion is JSON but no array of entry objects (an
\* object, a number, a string, a boolean, null, an array with an element that
\* is no object) fails: no 200 reply is sent.
C9_Original ==
    \A r \in Requests :
        (Answered(r) /\ OwnCall(r).content.defined
                     /\ OwnCall(r).content.text \in OtherTexts)
        => req[r].sent = "error"

\* The outcome the handler and the serializer give a request for the promise
\* of its own call.
OwnOutcome(r) ==
    LET ret == HandlerReturn(OwnCall(r).content) IN
    IF OwnCall(r).state = "rejected"
    THEN req[r].sent = "error" /\ req[r].error = "InferenceError"
    ELSE IF ~ret.ok
    THEN req[r].sent = "error" /\ req[r].error = "SyntaxError"
    ELSE \E out \in SerializeOutcomes(ret.val) :
            IF out.ok THEN req[r].sent = "200" /\ req[r].reply = out.text
            ELSE req[r].sent = "error" /\ req[r].error = "TypeError"

\* C10: with requests in flight together and their calls settling in any
\* order, each call carries the messages of its own request's body, no two
\* requests share a call, and the reply of a request is the outcome of its
\* own body and of the completion of its own call.
C10_Isolation ==
    \A r \in Requests :
        Called(r) =>
            /\ OwnCall(r).messages = Messages(req[r].body)
            /\ \A q \in Requests \ {r} : req[q].call # req[r].call
            /\ Done(r) => /\ OwnCall(r).state \in {"resolved", "rejected"}
                          /\ OwnOutcome(r)

C10_Witness ==
    /\ NConc >= 2
    /\ Done(1) /\ Done(2)
    /\ req[1].call = 2 /\ req[2].call = 1
    /\ req[1].sent = "200" /\ req[2].sent = "200"
    /\ req[1].reply # req[2].reply


====
